---- MODULE Spec2Model ----
(***************************************************************************)
(* Model of ga4.py: three facades over the Google Analytics Data API       *)
(* client (GA4RealTimeReport, GA4Report, GA4Metadata).  Each method builds *)
(* a request, delegates it to the client and flattens the response.        *)
(*                                                                         *)
(* Python values are modelled as follows.                                  *)
(*   - a name is a TLA+ string; a dimension or metric value, which float() *)
(*     may have to parse, is the sequence of its characters;               *)
(*   - an f-string is the tuple of its parts;                              *)
(*   - a list is a sequence, a dict is a function on its keys;             *)
(*   - an exception is [type, args]; None is [type |-> "NoneType"];        *)
(*   - a float32 is the reduced fraction [num, den], den a power of two.   *)
(***************************************************************************)
EXTENDS Integers, Sequences, FiniteSets, TLC

VARIABLES
    self,                       \* the facade instance: [cls, property_id, client]
    constructed,                \* history: the fields __init__ assigned
    query_report_defaults,      \* GA4Report.query_report.__defaults__ (date_ranges)
    return_df_defaults,         \* GA4Report.return_df.__defaults__ (date_ranges)
    args,                       \* the arguments the caller passes
    server,                     \* what the service holds: rows, quota, metadata
    last                        \* the last invocation: what it raised or returned

vars == <<self, constructed, query_report_defaults, return_df_defaults,
          args, server, last>>

----------------------------------------------------------------------------
(* Bounds of the model. *)

MaxDims == 2
MaxMetrics == 2
MaxRows == 2
MaxMetaEntries == 2

----------------------------------------------------------------------------
(* Python values. *)

None == [type |-> "NoneType", args |-> <<>>]

PyStr(s) == [type |-> "str", args |-> <<s>>]

\* class GA4Exception(Exception); GA4Exception(e) keeps e as its argument
GA4Exception(e) == [type |-> "GA4Exception", args |-> <<e>>]

\* ValueError raised by float(), numpy and pandas
ValueError(msg) == [type |-> "ValueError", args |-> <<PyStr(msg)>>]

\* the defaults of row_limit, offset_row and keep_empty_rows
row_limit == 10000
offset_row == 0
keep_empty_rows == TRUE

\* date_ranges: list=[('90daysAgo', 'today')]
date_ranges_default == << <<"90daysAgo", "today">> >>

\* the errors the delegated client raises (subclasses of Exception)
ClientErrors == {"PermissionDenied", "InvalidArgument"}

ClientError(kind) == [type |-> kind, args |-> <<>>]

----------------------------------------------------------------------------
(* Sequence helpers (list comprehensions). *)

Range(s) == {s[i] : i \in 1..Len(s)}

Prefix(s, n) == SubSeq(s, 1, n)

SeqsUpTo(S, n) == UNION {[1..k -> S] : k \in 0..n}

RECURSIVE Pow(_, _)
Pow(b, n) == IF n = 0 THEN 1 ELSE b * Pow(b, n - 1)

----------------------------------------------------------------------------
(* float(): the metric strings of the model are made of digits, at most    *)
(* one "." and other characters; float() accepts "12", "1.0", "1." and     *)
(* ".5" and raises ValueError on everything else that occurs here.         *)

Digits == {"0", "1", "2", "3", "4", "5", "6", "7", "8", "9"}

DigitVal(c) ==
    CASE c = "0" -> 0 [] c = "1" -> 1 [] c = "2" -> 2 [] c = "3" -> 3
      [] c = "4" -> 4 [] c = "5" -> 5 [] c = "6" -> 6 [] c = "7" -> 7
      [] c = "8" -> 8 [] c = "9" -> 9

IsDigit(c) == c \in Digits

RECURSIVE DecimalValue(_)
DecimalValue(ds) ==
    IF ds = <<>> THEN 0
    ELSE 10 * DecimalValue(Prefix(ds, Len(ds) - 1)) + DigitVal(ds[Len(ds)])

\* the decimal number a string denotes: [ok, num, den], value num / den
ParseDecimal(s) ==
    LET dots   == {i \in 1..Len(s) : s[i] = "."}
        digits == SelectSeq(s, IsDigit)
        wellformed == /\ \A i \in 1..Len(s) : s[i] \in Digits \cup {"."}
                      /\ Cardinality(dots) <= 1
                      /\ Len(digits) >= 1
        scale  == IF dots = {} THEN 0 ELSE Len(s) - (CHOOSE i \in dots : TRUE)
    IN IF wellformed
         THEN [ok |-> TRUE, num |-> DecimalValue(digits), den |-> Pow(10, scale)]
         ELSE [ok |-> FALSE, num |-> 0, den |-> 1]

RoundHalfEven(a, b) ==
    LET q == a \div b
        r == a % b
    IN IF 2 * r < b THEN q
       ELSE IF 2 * r > b THEN q + 1
       ELSE IF q % 2 = 0 THEN q ELSE q + 1

RECURSIVE ReduceDyadic(_, _)
ReduceDyadic(num, den) ==
    IF den > 1 /\ num % 2 = 0 THEN ReduceDyadic(num \div 2, den \div 2)
    ELSE [num |-> num, den |-> den]

\* least e >= 0 with n / (d * 2^e) < 2^24
RECURSIVE ExpDown(_, _, _)
ExpDown(n, d, e) ==
    IF n \div (d * Pow(2, e)) < Pow(2, 24) THEN e ELSE ExpDown(n, d, e + 1)

\* least k >= 0 with n * 2^k / d >= 2^23
RECURSIVE ExpUp(_, _, _)
ExpUp(n, d, k) ==
    IF n * Pow(2, k) >= Pow(2, 23) * d THEN k ELSE ExpUp(n, d, k + 1)

\* dtype 'f': the float32 nearest to num / den (24-bit significand,
\* round half to even), for 0 <= num / den inside the normal range
Float32(num, den) ==
    IF num = 0 THEN [num |-> 0, den |-> 1]
    ELSE IF num \div den >= Pow(2, 23)
      THEN LET e == ExpDown(num, den, 0)
           IN [num |-> RoundHalfEven(num, den * Pow(2, e)) * Pow(2, e), den |-> 1]
      ELSE LET k == ExpUp(num, den, 0)
           IN ReduceDyadic(RoundHalfEven(num * Pow(2, k), den), Pow(2, k))

----------------------------------------------------------------------------
(* The request and response types of google.analytics.data_v1beta.         *)

Dimension(name) == [name |-> name]

Metric(name) == [name |-> name]

DateRange(start_date, end_date) == [start_date |-> start_date, end_date |-> end_date]

\* MetricType(metric.type_).name
MetricTypeName(t) ==
    CASE t = 1 -> "TYPE_INTEGER" [] t = 2 -> "TYPE_FLOAT" [] t = 4 -> "TYPE_SECONDS"

\* f"{x}" of a bool
FormatBool(b) == IF b THEN "True" ELSE "False"

RunRealtimeReportRequest(property, dimensions, metrics, limit, return_property_quota) ==
    [property |-> property, dimensions |-> dimensions, metrics |-> metrics,
     limit |-> limit, return_property_quota |-> return_property_quota]

RunReportRequest(property, dimensions, metrics, limit, return_property_quota, date_ranges, offset, keep_empty) ==
    [property |-> property, dimensions |-> dimensions, metrics |-> metrics,
     limit |-> limit, return_property_quota |-> return_property_quota,
     date_ranges |-> date_ranges, offset |-> offset, keep_empty_rows |-> keep_empty]

GetMetadataRequest(name) == [name |-> name]

----------------------------------------------------------------------------
(* The service behind the client.  It holds a table of rows, each drawn    *)
(* from a catalogue by its seed, and answers a request with one header per *)
(* requested dimension and metric.  For a request with several date ranges *)
(* the Data API adds a "dateRange" dimension to headers and rows.  The     *)
(* property quota is returned only when the request asks for it.  Any call *)
(* may fail with one of ClientErrors.                                      *)

DimValueCatalogue == << <<"U", "S">>, <<"D", "E">> >>

MetricValueCatalogue ==
    << <<"1", ".", "0">>, <<"1", "6", "7", "7", "7", "2", "1", "7">>, <<"x">> >>

RowSeeds == 0..(Len(MetricValueCatalogue) - 1)

DimValueAt(seed, j) ==
    DimValueCatalogue[((seed + j - 1) % Len(DimValueCatalogue)) + 1]

MetricValueAt(seed, j) ==
    MetricValueCatalogue[((seed + j - 1) % Len(MetricValueCatalogue)) + 1]

DigitChar(n) == CHOOSE c \in Digits : DigitVal(c) = n

\* "date_range_0", "date_range_1", ...
DateRangeName(i) == <<"date_range_", DigitChar(i)>>

PropertyQuota == [tokens_per_day |-> [consumed |-> 1, remaining |-> 199999]]

ResponseMetaData == [currency_code |-> "USD", time_zone |-> "UTC"]

\* the headers and rows of a report over `table` for the request
ReportBody(request, table, n_date_ranges) ==
    LET D == Len(request.dimensions)
        M == Len(request.metrics)
        extra_header == IF n_date_ranges > 1 THEN <<[name |-> "dateRange"]>> ELSE <<>>
        extra_value(seed) ==
            IF n_date_ranges > 1
              THEN <<[value |-> DateRangeName(seed % n_date_ranges)]>>
              ELSE <<>>
    IN [dimension_headers |->
            [i \in 1..D |-> [name |-> request.dimensions[i].name]] \o extra_header,
        metric_headers |->
            [i \in 1..M |-> [name |-> request.metrics[i].name, type |-> 1]],
        rows |->
            [k \in 1..Len(table) |->
                [dimension_values |->
                    [j \in 1..D |-> [value |-> DimValueAt(table[k], j)]]
                        \o extra_value(table[k]),
                 metric_values |->
                    [j \in 1..M |-> [value |-> MetricValueAt(table[k], j)]]]],
        row_count |-> Len(table),
        metadata |-> ResponseMetaData]

WithQuota(request, srv, body) ==
    IF request.return_property_quota /\ srv.quota_granted
      THEN ("property_quota" :> PropertyQuota) @@ body
      ELSE body

\* the outcome of one call of the client: it raises, or it returns a response
ClientRaises(kind) ==
    [raised |-> TRUE, exc |-> ClientError(kind), response |-> None, calls |-> 1]

ClientReturns(response) ==
    [raised |-> FALSE, exc |-> None, response |-> response, calls |-> 1]

\* the service rejects a report that names neither a dimension nor a metric
NothingRequested(request) == request.dimensions = <<>> /\ request.metrics = <<>>

\* self.client.run_realtime_report(report_request)
run_realtime_report(client, request, srv, fail) ==
    IF fail # "none" THEN ClientRaises(fail)
    ELSE IF NothingRequested(request) THEN ClientRaises("InvalidArgument")
    ELSE ClientReturns(WithQuota(request, srv, ReportBody(request, srv.table, 1)))

\* self.client.run_report(report_request)
run_report(client, request, srv, fail) ==
    IF fail # "none" THEN ClientRaises(fail)
    ELSE IF NothingRequested(request) THEN ClientRaises("InvalidArgument")
    ELSE ClientReturns(WithQuota(request, srv,
                           ReportBody(request, srv.table, Len(request.date_ranges))))

\* self.client.get_metadata(report_request)
get_metadata(client, request, srv, fail) ==
    IF fail # "none" THEN ClientRaises(fail)
    ELSE ClientReturns([name |-> request.name,
                        dimensions |-> srv.dimensions,
                        metrics |-> srv.metrics])

----------------------------------------------------------------------------
(* What a method does: it raises exc or returns value, having called the   *)
(* client `calls` times.                                                    *)

Raise(exc, calls) == [raised |-> TRUE, exc |-> exc, value |-> None, calls |-> calls]

Return(value, calls) == [raised |-> FALSE, exc |-> None, value |-> value, calls |-> calls]

----------------------------------------------------------------------------
(* class GA4RealTimeReport                                                  *)

GA4RealTimeReport_init(property_id, client) ==
    [cls |-> "GA4RealTimeReport", property_id |-> property_id, client |-> client]

\* mutant: the request always asks for the property quota
GA4RealTimeReport_request_always_quota(slf, dimensions, metrics, limit, quota_usage) ==
    LET dimension_list == [i \in 1..Len(dimensions) |-> Dimension(dimensions[i])]
        metrics_list   == [i \in 1..Len(metrics) |-> Metric(metrics[i])]
    IN RunRealtimeReportRequest(<<"properties/", slf.property_id>>,
                                dimension_list, metrics_list, limit, TRUE)

GA4RealTimeReport_request(slf, dimensions, metrics, limit, quota_usage) ==
    LET dimension_list == [i \in 1..Len(dimensions) |-> Dimension(dimensions[i])]
        metrics_list   == [i \in 1..Len(metrics) |-> Metric(metrics[i])]
    IN RunRealtimeReportRequest(<<"properties/", slf.property_id>>,
                                dimension_list, metrics_list, limit, quota_usage)

\* mutant: the metric headers are left out of the header list
HeaderNames_dimensions_only(response) ==
    [i \in 1..Len(response.dimension_headers) |-> response.dimension_headers[i].name]

\* [header.name ...] + [header.name ...]
HeaderNames(response) ==
    [i \in 1..Len(response.dimension_headers) |-> response.dimension_headers[i].name]
        \o [i \in 1..Len(response.metric_headers) |-> response.metric_headers[i].name]

\* mutant: a row lists its metric values before its dimension values
RowValues_metrics_first(row) ==
    [j \in 1..Len(row.metric_values) |-> row.metric_values[j].value]
        \o [j \in 1..Len(row.dimension_values) |-> row.dimension_values[j].value]

\* [dimension_value.value ...] + [metric_value.value ...]
RowValues(row) ==
    [j \in 1..Len(row.dimension_values) |-> row.dimension_values[j].value]
        \o [j \in 1..Len(row.metric_values) |-> row.metric_values[j].value]

GA4RealTimeReport_output(response) ==
    LET headers == HeaderNames(response)
        rows == [k \in 1..Len(response.rows) |-> RowValues(response.rows[k])]
        output == [headers |-> headers, rows |-> rows]
    IN IF "property_quota" \in DOMAIN response
         THEN ("quota" :> response.property_quota) @@ output
         ELSE output

GA4RealTimeReport_query_report(slf, dimensions, metrics, limit, quota_usage, srv, fail) ==
    LET report_request ==
            GA4RealTimeReport_request(slf, dimensions, metrics, limit, quota_usage)
        reply == run_realtime_report(slf.client, report_request, srv, fail)
    IN IF reply.raised
         THEN Raise(GA4Exception(reply.exc), reply.calls)
         ELSE Return(GA4RealTimeReport_output(reply.response), reply.calls)

----------------------------------------------------------------------------
(* numpy and pandas, as far as return_df uses them.  An array is           *)
(* [shape, data]; a table cell is [dtype, str, num, den].                  *)

StrCell(v) == [dtype |-> "object", str |-> v, num |-> 0, den |-> 1]

FloatCell(f) == [dtype |-> "float32", str |-> <<>>, num |-> f.num, den |-> f.den]

\* np.array(lists): a list of equally long lists, or the empty list
np_array(lists) ==
    IF lists = <<>> THEN [shape |-> <<0>>, data |-> <<>>]
    ELSE [shape |-> <<Len(lists), Len(lists[1])>>, data |-> lists]

\* np.array(lists, dtype = 'f')
np_array_f(lists) ==
    LET parsed == [i \in 1..Len(lists) |->
                      [j \in 1..Len(lists[i]) |-> ParseDecimal(lists[i][j])]]
    IN IF \E i \in 1..Len(lists) : \E j \in 1..Len(lists[i]) : ~parsed[i][j].ok
         THEN Raise(ValueError("could not convert string to float"), 0)
         ELSE Return(np_array([i \in 1..Len(lists) |->
                          [j \in 1..Len(lists[i]) |->
                              Float32(parsed[i][j].num, parsed[i][j].den)]]), 0)

np_transpose(a) ==
    IF Len(a.shape) = 1 THEN a
    ELSE [shape |-> <<a.shape[2], a.shape[1]>>,
          data |-> [i \in 1..a.shape[2] |-> [j \in 1..a.shape[1] |-> a.data[j][i]]]]

\* pd.MultiIndex.from_arrays(arrays, names = names)
pd_MultiIndex_from_arrays(arrays, names) ==
    IF arrays.shape[1] = 0
      THEN Raise(ValueError("Must pass non-zero number of levels/codes"), 0)
      ELSE Return([names |-> names.data, levels |-> arrays.data,
                   length |-> arrays.shape[2]], 0)

\* pd.DataFrame(data = data, index = index, columns = columns)
pd_DataFrame(data, index, columns) ==
    LET values == IF Len(data.shape) = 1
                    THEN [shape |-> <<data.shape[1], 1>>,
                          data |-> [i \in 1..data.shape[1] |-> <<data.data[i]>>]]
                    ELSE data
    IN IF values.shape[2] # Len(columns) \/ values.shape[1] # index.length
         THEN IF values.shape[1] = 0 /\ index.length > 0
                THEN Raise(ValueError("Empty data passed with indices specified."), 0)
                ELSE Raise(ValueError("Shape of passed values does not match indices"), 0)
         ELSE Return([index |-> index, columns |-> columns, values |-> values.data], 0)

\* df.reset_index(): the index levels become the first columns
reset_index(df) ==
    LET names == df.index.names
        L == Len(names)
    IN IF \/ \E l \in 1..L : names[l] \in Range(df.columns)
          \/ \E l, m \in 1..L : l # m /\ names[l] = names[m]
         THEN Raise(ValueError("cannot insert, already exists"), 0)
         ELSE Return([columns |-> names \o df.columns,
                      rows |-> [i \in 1..df.index.length |->
                          [l \in 1..L |-> StrCell(df.index.levels[l][i])]
                            \o [c \in 1..Len(df.columns) |-> FloatCell(df.values[i][c])]]], 0)

----------------------------------------------------------------------------
(* class GA4Report                                                          *)

GA4Report_init(property_id, client) ==
    [cls |-> "GA4Report", property_id |-> property_id, client |-> client]

\* date_ranges = [DateRange(...) for date_range in date_ranges] binds the
\* local name to a new list; the list the caller passed stays as it was
\* mutant: the converted ranges are added to the list that was passed
date_ranges_extended(date_ranges) ==
    date_ranges \o [i \in 1..Len(date_ranges) |-> date_ranges[i]]

date_ranges_after_call(date_ranges) == date_ranges

GA4Report_request(slf, dimensions, metrics, date_ranges, offset, limit, keep_empty, quota_usage) ==
    LET dimension_list == [i \in 1..Len(dimensions) |-> Dimension(dimensions[i])]
        metrics_list   == [i \in 1..Len(metrics) |-> Metric(metrics[i])]
        date_range_list == [i \in 1..Len(date_ranges) |->
                               DateRange(date_ranges[i][1], date_ranges[i][2])]
    IN RunReportRequest(<<"properties/", slf.property_id>>,
                        dimension_list, metrics_list, limit, quota_usage,
                        date_range_list, offset, keep_empty)

GA4Report_output(response) ==
    LET headers == HeaderNames(response)
        rows == [k \in 1..Len(response.rows) |-> RowValues(response.rows[k])]
        output == [headers |-> headers, rows |-> rows,
                   row_count |-> response.row_count,
                   metadata |-> response.metadata,
                   response |-> response]
    IN IF "property_quota" \in DOMAIN response
         THEN ("quota" :> response.property_quota) @@ output
         ELSE output

GA4Report_query_report(slf, dimensions, metrics, date_ranges, offset, limit, keep_empty, quota_usage, srv, fail) ==
    LET report_request ==
            GA4Report_request(slf, dimensions, metrics, date_ranges, offset, limit,
                              keep_empty, quota_usage)
        reply == run_report(slf.client, report_request, srv, fail)
    IN IF reply.raised
         THEN Raise(GA4Exception(reply.exc), reply.calls)
         ELSE Return(GA4Report_output(reply.response), reply.calls)

\* the body of return_df after its query: lines 123 to 142
GA4Report_reshape(response) ==
    LET N == Len(response.rows)
        row_index_names ==
            [i \in 1..Len(response.dimension_headers) |-> response.dimension_headers[i].name]
        row_header ==
            [i \in 1..Len(row_index_names) |->
                [k \in 1..N |-> response.rows[k].dimension_values[i].value]]
        row_index_named ==
            pd_MultiIndex_from_arrays(np_array(row_header), np_array(row_index_names))
        metric_names ==
            [i \in 1..Len(response.metric_headers) |-> response.metric_headers[i].name]
        data_values ==
            [i \in 1..Len(metric_names) |->
                [k \in 1..N |-> response.rows[k].metric_values[i].value]]
        data == np_array_f(data_values)
        frame == pd_DataFrame(np_transpose(data.value), row_index_named.value, metric_names)
    IN IF row_index_named.raised THEN row_index_named
       ELSE IF data.raised THEN data
       ELSE IF frame.raised THEN frame
       ELSE reset_index(frame.value)

GA4Report_return_df(slf, dimensions, metrics, date_ranges, offset, limit, keep_empty, quota_usage, srv, fail) ==
    LET queried == GA4Report_query_report(slf, dimensions, metrics, date_ranges, offset,
                                          limit, keep_empty, quota_usage, srv, fail)
        df == GA4Report_reshape(queried.value.response)
    IN IF queried.raised THEN queried
       ELSE IF df.raised THEN Raise(df.exc, queried.calls)
       ELSE Return(df.value, queried.calls)

----------------------------------------------------------------------------
(* class GA4Metadata                                                        *)

GA4Metadata_init(property_id, client) ==
    [cls |-> "GA4Metadata", property_id |-> property_id, client |-> client]

\* mutant: the client's error is raised again as it is
GA4Metadata_query_report_reraise(slf, srv, fail) ==
    LET report_request ==
            GetMetadataRequest(<<"properties/", slf.property_id, "/metadata">>)
        reply == get_metadata(slf.client, report_request, srv, fail)
    IN IF reply.raised
         THEN Raise(reply.exc, reply.calls)
         ELSE Return(reply.response, reply.calls)

GA4Metadata_query_report(slf, srv, fail) ==
    LET report_request ==
            GetMetadataRequest(<<"properties/", slf.property_id, "/metadata">>)
        reply == get_metadata(slf.client, report_request, srv, fail)
    IN IF reply.raised
         THEN Raise(GA4Exception(reply.exc), reply.calls)
         ELSE Return(reply.response, reply.calls)

\* mutant: the UI name is filled from the API name
DimensionRecord_ui_name_from_api_name(dimension) ==
    [Type |-> "Dimension", API_Name |-> dimension.api_name,
     UI_Name |-> dimension.api_name, Description |-> dimension.description,
     Custom_definition |-> FormatBool(dimension.custom_definition),
     Metric_type |-> "N/A"]

DimensionRecord(dimension) ==
    [Type |-> "Dimension", API_Name |-> dimension.api_name,
     UI_Name |-> dimension.ui_name, Description |-> dimension.description,
     Custom_definition |-> FormatBool(dimension.custom_definition),
     Metric_type |-> "N/A"]

MetricRecord(metric) ==
    [Type |-> "Metric", API_Name |-> metric.api_name,
     UI_Name |-> metric.ui_name, Description |-> metric.description,
     Custom_definition |-> FormatBool(metric.custom_definition),
     Metric_type |-> MetricTypeName(metric.type_)]

\* pd.DataFrame(output) of a list of dicts: one row per dict, in order
pd_DataFrame_records(output) ==
    [columns |-> IF output = <<>> THEN <<>>
                 ELSE <<"Type", "API_Name", "UI_Name", "Description",
                        "Custom_definition", "Metric_type">>,
     rows |-> output]

\* mutant: return_df asks the client again before it builds the table
GA4Metadata_return_df_queries_twice(slf, srv, fail) ==
    LET first == GA4Metadata_query_report(slf, srv, fail)
        queried == GA4Metadata_query_report(slf, srv, fail)
        response == queried.value
        output ==
            [i \in 1..Len(response.dimensions) |-> DimensionRecord(response.dimensions[i])]
              \o [i \in 1..Len(response.metrics) |-> MetricRecord(response.metrics[i])]
    IN IF first.raised THEN first
       ELSE IF queried.raised THEN Raise(queried.exc, first.calls + queried.calls)
       ELSE Return(pd_DataFrame_records(output), first.calls + queried.calls)

GA4Metadata_return_df(slf, srv, fail) ==
    LET queried == GA4Metadata_query_report(slf, srv, fail)
        response == queried.value
        output ==
            [i \in 1..Len(response.dimensions) |-> DimensionRecord(response.dimensions[i])]
              \o [i \in 1..Len(response.metrics) |-> MetricRecord(response.metrics[i])]
    IN IF queried.raised THEN queried
       ELSE Return(pd_DataFrame_records(output), queried.calls)

----------------------------------------------------------------------------
(* The inputs: what callers pass and what the service holds.               *)

PropertyIds == {"123456789"}

ClientHandles == {"BetaAnalyticsDataClient"}

DimNameCatalogue == <<"country", "city", "date">>

MetricNameCatalogue == <<"sessions", "activeUsers", "totalRevenue">>

DateRangeCatalogue == << <<"2024-01-01", "2024-01-31">>, <<"7daysAgo", "today">> >>

Cycle(catalogue, n) == [i \in 1..n |-> catalogue[((i - 1) % Len(catalogue)) + 1]]

DimensionLists == {Cycle(DimNameCatalogue, n) : n \in 0..MaxDims}

MetricLists == {Cycle(MetricNameCatalogue, n) : n \in 0..MaxMetrics}

DateRangeLists == {Prefix(DateRangeCatalogue, n) : n \in 1..Len(DateRangeCatalogue)}

Tables == SeqsUpTo(RowSeeds, MaxRows)

MetaDimensions ==
    {[api_name |-> "country", ui_name |-> "Country",
      description |-> "The country of the user", custom_definition |-> FALSE],
     [api_name |-> "customEvent:plan", ui_name |-> "Plan",
      description |-> "Event-scoped custom dimension", custom_definition |-> TRUE]}

MetaMetrics ==
    {[api_name |-> "sessions", ui_name |-> "Sessions",
      description |-> "The number of sessions", custom_definition |-> FALSE,
      type_ |-> 1],
     [api_name |-> "customEvent:score", ui_name |-> "Score",
      description |-> "Event-scoped custom metric", custom_definition |-> TRUE,
      type_ |-> 2],
     [api_name |-> "userEngagementDuration", ui_name |-> "User engagement",
      description |-> "Time in the foreground", custom_definition |-> FALSE,
      type_ |-> 4]}

NoArgs == [dimensions |-> <<>>, metrics |-> <<>>, date_ranges_given |-> FALSE,
           date_ranges |-> <<>>, quota_usage |-> FALSE]

NoReport == [table |-> <<>>, quota_granted |-> FALSE]

NoMetadata == [dimensions |-> <<>>, metrics |-> <<>>]

NotCalled == [op |-> "none", fail |-> "none", raised |-> FALSE, exc |-> None,
              value |-> None, calls |-> 0]

Outcome(op, fail, r) ==
    [op |-> op, fail |-> fail, raised |-> r.raised, exc |-> r.exc,
     value |-> r.value, calls |-> r.calls]

ClientOutcomes == ClientErrors \cup {"none"}

----------------------------------------------------------------------------
(* The state machine: a facade is constructed, then its methods are called *)
(* in any order; the client fails or answers each call.                    *)

InitRealTime ==
    /\ \E p \in PropertyIds, c \in ClientHandles : self = GA4RealTimeReport_init(p, c)
    /\ \E d \in DimensionLists, m \in MetricLists, q \in BOOLEAN :
          args = [NoArgs EXCEPT !.dimensions = d, !.metrics = m, !.quota_usage = q]
    /\ \E t \in Tables, g \in BOOLEAN :
          server = [table |-> t, quota_granted |-> g] @@ NoMetadata

InitReport ==
    /\ \E p \in PropertyIds, c \in ClientHandles : self = GA4Report_init(p, c)
    /\ \E d \in DimensionLists, m \in MetricLists, q \in BOOLEAN :
          \/ args = [NoArgs EXCEPT !.dimensions = d, !.metrics = m, !.quota_usage = q]
          \/ \E r \in DateRangeLists :
                args = [dimensions |-> d, metrics |-> m, date_ranges_given |-> TRUE,
                        date_ranges |-> r, quota_usage |-> q]
    /\ \E t \in Tables, g \in BOOLEAN :
          server = [table |-> t, quota_granted |-> g] @@ NoMetadata

InitMetadata ==
    /\ \E p \in PropertyIds, c \in ClientHandles : self = GA4Metadata_init(p, c)
    /\ args = NoArgs
    /\ \E ds \in SeqsUpTo(MetaDimensions, MaxMetaEntries),
          ms \in SeqsUpTo(MetaMetrics, MaxMetaEntries) :
          server = [dimensions |-> ds, metrics |-> ms] @@ NoReport

Init ==
    /\ InitRealTime \/ InitReport \/ InitMetadata
    /\ constructed = self
    /\ query_report_defaults = date_ranges_default
    /\ return_df_defaults = date_ranges_default
    /\ last = NotCalled

RealTimeQueryReport ==
    /\ self.cls = "GA4RealTimeReport"
    /\ \E fail \in ClientOutcomes :
          last' = Outcome("GA4RealTimeReport.query_report", fail,
                      GA4RealTimeReport_query_report(self, args.dimensions, args.metrics,
                          row_limit, args.quota_usage, server, fail))
    /\ UNCHANGED <<self, constructed, query_report_defaults, return_df_defaults,
                   args, server>>

ReportQueryReport ==
    /\ self.cls = "GA4Report"
    /\ LET date_ranges == IF args.date_ranges_given THEN args.date_ranges
                          ELSE query_report_defaults
       IN /\ \E fail \in ClientOutcomes :
                last' = Outcome("GA4Report.query_report", fail,
                            GA4Report_query_report(self, args.dimensions, args.metrics,
                                date_ranges, offset_row, row_limit, keep_empty_rows,
                                args.quota_usage, server, fail))
          /\ IF args.date_ranges_given
               THEN /\ args' = [args EXCEPT !.date_ranges = date_ranges_after_call(@)]
                    /\ UNCHANGED query_report_defaults
               ELSE /\ query_report_defaults' = date_ranges_after_call(query_report_defaults)
                    /\ UNCHANGED args
    /\ UNCHANGED <<self, constructed, return_df_defaults, server>>

ReportReturnDf ==
    /\ self.cls = "GA4Report"
    /\ LET date_ranges == IF args.date_ranges_given THEN args.date_ranges
                          ELSE return_df_defaults
       IN /\ \E fail \in ClientOutcomes :
                last' = Outcome("GA4Report.return_df", fail,
                            GA4Report_return_df(self, args.dimensions, args.metrics,
                                date_ranges, offset_row, row_limit, keep_empty_rows,
                                args.quota_usage, server, fail))
          /\ IF args.date_ranges_given
               THEN /\ args' = [args EXCEPT !.date_ranges = date_ranges_after_call(@)]
                    /\ UNCHANGED return_df_defaults
               ELSE /\ return_df_defaults' = date_ranges_after_call(return_df_defaults)
                    /\ UNCHANGED args
    /\ UNCHANGED <<self, constructed, query_report_defaults, server>>

MetadataQueryReport ==
    /\ self.cls = "GA4Metadata"
    /\ \E fail \in ClientOutcomes :
          last' = Outcome("GA4Metadata.query_report", fail,
                      GA4Metadata_query_report(self, server, fail))
    /\ UNCHANGED <<self, constructed, query_report_defaults, return_df_defaults,
                   args, server>>

MetadataReturnDf ==
    /\ self.cls = "GA4Metadata"
    /\ \E fail \in ClientOutcomes :
          last' = Outcome("GA4Metadata.return_df", fail,
                      GA4Metadata_return_df(self, server, fail))
    /\ UNCHANGED <<self, constructed, query_report_defaults, return_df_defaults,
                   args, server>>

Next ==
    \/ RealTimeQueryReport
    \/ ReportQueryReport
    \/ ReportReturnDf
    \/ MetadataQueryReport
    \/ MetadataReturnDf

Spec == Init /\ [][Next]_vars

----------------------------------------------------------------------------
(* The exchange with the client behind the last invocation.                *)

Called == last.op # "none"

IsQuery == last.op \in {"GA4RealTimeReport.query_report", "GA4Report.query_report"}


PassedDateRanges ==
    IF args.date_ranges_given THEN args.date_ranges
    ELSE IF last.op = "GA4Report.return_df" THEN return_df_defaults
    ELSE query_report_defaults

SentRequest ==
    CASE self.cls = "GA4RealTimeReport" ->
            GA4RealTimeReport_request(self, args.dimensions, args.metrics,
                                      row_limit, args.quota_usage)
      [] self.cls = "GA4Report" ->
            GA4Report_request(self, args.dimensions, args.metrics, PassedDateRanges,
                              offset_row, row_limit, keep_empty_rows, args.quota_usage)
      [] self.cls = "GA4Metadata" ->
            GetMetadataRequest(<<"properties/", self.property_id, "/metadata">>)

ClientReply ==
    CASE self.cls = "GA4RealTimeReport" ->
            run_realtime_report(self.client, SentRequest, server, last.fail)
      [] self.cls = "GA4Report" ->
            run_report(self.client, SentRequest, server, last.fail)
      [] self.cls = "GA4Metadata" ->
            get_metadata(self.client, SentRequest, server, last.fail)

Response == ClientReply.response

ClientFailed == Called /\ ClientReply.raised

ClientAnswered == Called /\ ~ClientReply.raised

----------------------------------------------------------------------------
(* C1: whenever the delegated client raises an error, each of the five     *)
(* operations raises one GA4Exception whose argument is that error, and    *)
(* returns nothing.                                                        *)

C1_ClientErrorIsWrappedOnce ==
    ClientFailed =>
        /\ last.raised
        /\ last.exc.type = "GA4Exception"
        /\ last.exc.args = <<ClientReply.exc>>
        /\ last.value = None

C1_Witness ==
    /\ last.op = "GA4Report.return_df"
    /\ last.fail = "PermissionDenied"
    /\ last.raised
    /\ Len(server.table) > 0

(* C2: a successful real-time or historical query returns the response's   *)
(* dimension header names followed by its metric header names, and one row *)
(* per response row, in order, each the row's dimension values followed by *)
(* its metric values.                                                      *)

C2_QueryFlattensInResponseOrder ==
    (IsQuery /\ ~last.raised) =>
        LET D == Len(Response.dimension_headers)
            M == Len(Response.metric_headers)
        IN /\ Len(last.value.headers) = D + M
           /\ \A i \in 1..D : last.value.headers[i] = Response.dimension_headers[i].name
           /\ \A i \in 1..M : last.value.headers[D + i] = Response.metric_headers[i].name
           /\ Len(last.value.rows) = Len(Response.rows)
           /\ \A k \in 1..Len(Response.rows) :
                LET row == Response.rows[k]
                    dv == Len(row.dimension_values)
                    mv == Len(row.metric_values)
                IN /\ Len(last.value.rows[k]) = dv + mv
                   /\ \A j \in 1..dv : last.value.rows[k][j] = row.dimension_values[j].value
                   /\ \A j \in 1..mv : last.value.rows[k][dv + j] = row.metric_values[j].value

C2_Witness ==
    /\ last.op = "GA4Report.query_report"
    /\ ~last.raised
    /\ Len(args.dimensions) = 2
    /\ Len(args.metrics) = 2
    /\ Len(last.value.rows) = 2
    /\ last.value.rows[1] # last.value.rows[2]

(* C3, as the spec states it: the header list of a successful query is as  *)
(* long as the dimension list and the metric list passed, and so is every  *)
(* row.                                                                    *)

C3_HeaderLengthIsRequestLength ==
    (IsQuery /\ ~last.raised) =>
        /\ Len(last.value.headers) = Len(args.dimensions) + Len(args.metrics)
        /\ \A k \in 1..Len(last.value.rows) :
              Len(last.value.rows[k]) = Len(last.value.headers)

(* C3, amended: the header list has one entry per dimension header and     *)
(* metric header of the response.  That is len(dimensions) + len(metrics)  *)
(* for a real-time query and for a historical query with one date range,   *)
(* and one more, the dateRange dimension the service adds, for a           *)
(* historical query with several date ranges.  Every row is as long as the *)
(* header list.                                                            *)

C3_HeaderLengthIsResponseWidth ==
    (IsQuery /\ ~last.raised) =>
        LET requested == Len(args.dimensions) + Len(args.metrics)
            several == self.cls = "GA4Report" /\ Len(PassedDateRanges) > 1
        IN /\ Len(last.value.headers) =
                Len(Response.dimension_headers) + Len(Response.metric_headers)
           /\ ~several => Len(last.value.headers) = requested
           /\ several => Len(last.value.headers) = requested + 1
           /\ \A k \in 1..Len(last.value.rows) :
                 Len(last.value.rows[k]) = Len(last.value.headers)

C3_Witness ==
    /\ last.op = "GA4Report.query_report"
    /\ ~last.raised
    /\ args.date_ranges_given
    /\ Len(args.date_ranges) = 2
    /\ Len(last.value.headers) = 3
    /\ Len(last.value.rows) > 0

(* C4, as the spec states it: for a historical response of N rows with     *)
(* numeric metric values, to_table returns N rows in response order,       *)
(* duplicates included, with len(dimensions) dimension columns followed by *)
(* len(metrics) metric columns, row i holding row i's dimension values and *)
(* the numeric value of its metric values.                                 *)

AllMetricValuesNumeric ==
    \A k \in 1..Len(Response.rows) :
        \A j \in 1..Len(Response.rows[k].metric_values) :
            ParseDecimal(Response.rows[k].metric_values[j].value).ok

C4_ToTableKeepsEveryRow ==
    (last.op = "GA4Report.return_df" /\ ClientAnswered /\ AllMetricValuesNumeric) =>
        LET D == Len(args.dimensions)
            M == Len(args.metrics)
        IN /\ ~last.raised
           /\ Len(last.value.columns) = D + M
           /\ Len(last.value.rows) = Len(Response.rows)
           /\ \A k \in 1..Len(Response.rows) :
                LET row == Response.rows[k]
                    cells == last.value.rows[k]
                IN /\ Len(cells) = D + M
                   /\ \A j \in 1..D : cells[j].str = row.dimension_values[j].value
                   /\ \A j \in 1..M :
                        LET exact == ParseDecimal(row.metric_values[j].value)
                        IN cells[D + j].num * exact.den = exact.num * cells[D + j].den

(* C4, where the code meets it: with at least one dimension header and one *)
(* metric header in the response, to_table returns one row per response    *)
(* row, in order, with one column per dimension header followed by one per *)
(* metric header, each metric value rounded to float32.                    *)

C4_ToTableWithDimensionsAndMetrics ==
    (/\ last.op = "GA4Report.return_df" /\ ClientAnswered /\ AllMetricValuesNumeric
     /\ Response.dimension_headers # <<>> /\ Response.metric_headers # <<>>) =>
        LET D == Len(Response.dimension_headers)
            M == Len(Response.metric_headers)
        IN /\ ~last.raised
           /\ Len(last.value.columns) = D + M
           /\ Len(last.value.rows) = Len(Response.rows)
           /\ \A k \in 1..Len(Response.rows) :
                LET row == Response.rows[k]
                    cells == last.value.rows[k]
                IN /\ Len(cells) = D + M
                   /\ \A j \in 1..D : cells[j].str = row.dimension_values[j].value
                   /\ \A j \in 1..M :
                        LET exact == ParseDecimal(row.metric_values[j].value)
                            stored == Float32(exact.num, exact.den)
                        IN cells[D + j].num = stored.num /\ cells[D + j].den = stored.den

(* C5, as the spec states it: when the client answers and some metric      *)
(* value is not numeric, to_table returns no table and raises the numeric  *)
(* conversion failure itself, not a GA4Exception.                          *)

C5_NonNumericMetricFailsConversion ==
    (last.op = "GA4Report.return_df" /\ ClientAnswered /\ ~AllMetricValuesNumeric) =>
        /\ last.raised
        /\ last.value = None
        /\ last.exc.type = "ValueError"
        /\ last.exc.args = <<[type |-> "str", args |-> <<"could not convert string to float">>]>>

(* C5, where the code meets it: with at least one dimension header in the  *)
(* response, a non-numeric metric value makes to_table raise the           *)
(* conversion's ValueError, unwrapped, and return no table.                *)

C5_ConversionFailureWithDimensions ==
    (/\ last.op = "GA4Report.return_df" /\ ClientAnswered /\ ~AllMetricValuesNumeric
     /\ Response.dimension_headers # <<>>) =>
        /\ last.raised
        /\ last.value = None
        /\ last.exc.type = "ValueError"
        /\ last.exc.args = <<[type |-> "str", args |-> <<"could not convert string to float">>]>>

(* C6: for a metadata response with D dimensions and M metrics, to_table   *)
(* returns D + M records: the dimensions in response order, typed          *)
(* "Dimension" with Metric_type "N/A", then the metrics in response order, *)
(* typed "Metric" with the name of their metric type; each record carries  *)
(* its entry's API name, UI name, description and custom-definition flag.  *)

C6_MetadataRecordsInResponseOrder ==
    (last.op = "GA4Metadata.return_df" /\ ClientAnswered) =>
        LET D == Len(Response.dimensions)
            M == Len(Response.metrics)
            Carries(record, entry) ==
                /\ record.API_Name = entry.api_name
                /\ record.UI_Name = entry.ui_name
                /\ record.Description = entry.description
                /\ record.Custom_definition =
                      (IF entry.custom_definition THEN "True" ELSE "False")
        IN /\ ~last.raised
           /\ Len(last.value.rows) = D + M
           /\ \A i \in 1..D :
                /\ last.value.rows[i].Type = "Dimension"
                /\ last.value.rows[i].Metric_type = "N/A"
                /\ Carries(last.value.rows[i], Response.dimensions[i])
           /\ \A i \in 1..M :
                /\ last.value.rows[D + i].Type = "Metric"
                /\ last.value.rows[D + i].Metric_type = MetricTypeName(Response.metrics[i].type_)
                /\ Carries(last.value.rows[D + i], Response.metrics[i])

C6_Witness ==
    /\ last.op = "GA4Metadata.return_df"
    /\ ~last.raised
    /\ Len(server.dimensions) = 1
    /\ Len(server.metrics) = 1
    /\ last.value.rows[1].API_Name = "country"
    /\ last.value.rows[2].API_Name = "sessions"
    /\ last.value.rows[2].Metric_type = "TYPE_INTEGER"

(* C7: the result of a query holds quota info only if the caller asked for *)
(* quota usage and the response carries it.                                *)

C7_QuotaOnlyIfRequestedAndReturned ==
    (IsQuery /\ ~last.raised) =>
        ("quota" \in DOMAIN last.value =>
            /\ args.quota_usage
            /\ "property_quota" \in DOMAIN Response)

C7_Witness ==
    /\ last.op = "GA4RealTimeReport.query_report"
    /\ ~last.raised
    /\ args.quota_usage
    /\ "quota" \in DOMAIN last.value

(* C8, as the spec states it: with an empty dimension list, an empty       *)
(* metric list or a response without rows, an operation is rejected with a *)
(* GA4Exception or returns its structures; it fails with no other error.   *)

ZeroLengthInput ==
    \/ self.cls \in {"GA4RealTimeReport", "GA4Report"}
         /\ (args.dimensions = <<>> \/ args.metrics = <<>> \/ server.table = <<>>)
    \/ self.cls = "GA4Metadata"
         /\ (server.dimensions = <<>> \/ server.metrics = <<>>)

C8_ZeroLengthInputsNeverCrash ==
    (Called /\ ZeroLengthInput) =>
        /\ last.raised => last.exc.type = "GA4Exception"
        /\ (~last.raised /\ IsQuery /\ server.table = <<>>) => last.value.rows = <<>>

(* C9: every invocation calls the delegated client exactly once, whether   *)
(* it succeeds or fails.                                                   *)

C9_OneClientCallPerInvocation == Called => last.calls = 1

C9_Witness ==
    /\ last.op = "GA4Metadata.return_df"
    /\ last.fail = "InvalidArgument"
    /\ last.raised
    /\ last.calls = 1

(* C10: after any operations, the property identifier and the client are   *)
(* those set at construction and both default date-range lists are still   *)
(* [('90daysAgo', 'today')].                                               *)

C10_InstanceAndDefaultsAreNeverMutated ==
    /\ self.property_id = constructed.property_id
    /\ self.client = constructed.client
    /\ query_report_defaults = << <<"90daysAgo", "today">> >>
    /\ return_df_defaults = << <<"90daysAgo", "today">> >>

C10_Witness ==
    /\ last.op = "GA4Report.return_df"
    /\ ~args.date_ranges_given
    /\ ~last.raised
    /\ Len(last.value.rows) = 2


====
